---- MODULE Spec2Model ----
(***************************************************************************)
(* In-memory sliding-window rate limiter of src/lib/bcrypt.ts              *)
(* (rateLimit, assertRateLimit, resetRateLimit over the HIT_STORE map).    *)
(*                                                                         *)
(* rateLimit contains no await: on the JavaScript event loop each call     *)
(* runs to completion, so one call is one atomic step.  Simultaneous       *)
(* requests are calls taken at the same value of the clock.                *)
(*                                                                         *)
(* A JavaScript value of an options field is a record [tag, n]:            *)
(* tag = "num" is the finite number n; "undefined", "NaN" and "Infinity"   *)
(* are the values Number.isFinite rejects.                                 *)
(***************************************************************************)
EXTENDS Integers, Sequences, FiniteSets, TLC

\* ---------------------------------------------------------------- bounds
MaxTime == 1
MaxOps == 3
MaxBurst == 21
MaxScenarioOps == 4

\* ------------------------------------------------------ program constants
DefaultLimit == 20
DefaultWindowMs == 60000
TooManyRequests == 429

Keys == {"a", "b"}

\* instants the clock can show: an early range, and the instant one default
\* window after the first
Instants == (0..MaxTime) \cup {DefaultWindowMs}

Num(n) == [tag |-> "num", n |-> n]
Undefined == [tag |-> "undefined", n |-> 0]

NaN == [tag |-> "NaN", n |-> 0]
Infinity == [tag |-> "Infinity", n |-> 0]

\* the options objects callers pass: two finite policies, both fields
\* omitted, and one field finite (at its smallest value, 0) with the other
\* not finite
Options ==
  { [limit |-> Num(1), windowMs |-> Num(1)],
    [limit |-> Num(2), windowMs |-> Num(2)],
    [limit |-> Undefined, windowMs |-> Undefined],
    [limit |-> NaN, windowMs |-> Num(0)],
    [limit |-> Num(0), windowMs |-> Infinity] }

\* HIT_STORE : the Map of the module, key -> timestamps of the hits kept
\* now       : the value Date.now() returns
\* last      : the most recent call: its arguments, the list stored for its
\*             key when it started, the decision taken and what the caller got
\* calls     : per key, time and verdict of every call since the key's reset
\* pol       : per key, the effective limit and window of those calls
\*             (NoneYet before the first, Mixed once two calls differed)
\* gen       : per key, "reset" once its hits have been deleted by a reset
\* nops      : operations performed so far
VARIABLES HIT_STORE, now, last, calls, pol, gen, nops

vars == <<HIT_STORE, now, last, calls, pol, gen, nops>>

\* ------------------------------------------------------------ pure parts
Max(a, b) == IF a >= b THEN a ELSE b

IsFinite(v) == v.tag = "num"

EffLimit(opts) == IF IsFinite(opts.limit) THEN opts.limit.n ELSE DefaultLimit

\* mutant: the window is defaulted whenever the limit is
EffWindowMsCoupled(opts) ==
  IF IsFinite(opts.limit) /\ IsFinite(opts.windowMs)
    THEN opts.windowMs.n
    ELSE DefaultWindowMs

EffWindowMs(opts) ==
  IF IsFinite(opts.windowMs) THEN opts.windowMs.n ELSE DefaultWindowMs

\* HIT_STORE.get(key) ?? []
StoreGet(store, key) == IF key \in DOMAIN store THEN store[key] ELSE <<>>

\* mutant: a hit exactly one window old still counts
InWindowClosed(ts, windowStart) == ts >= windowStart

\* mutant: the window is one millisecond too short
InWindowShort(ts, windowStart) == ts > windowStart + 1

InWindow(ts, windowStart) == ts > windowStart

\* mutant: the new hit is put in front (unshift instead of push)
RecentPrepend(list, t, windowMs) ==
  <<t>> \o SelectSeq(list, LAMBDA ts : InWindow(ts, t - windowMs))

\* mutant: nothing is pruned
RecentNoPrune(list, t, windowMs) == Append(list, t)

\* list.filter((ts) => ts > windowStart); recent.push(now)
Recent(list, t, windowMs) ==
  Append(SelectSeq(list, LAMBDA ts : InWindow(ts, t - windowMs)), t)

\* mutant: the map is replaced instead of updated
StoreSetOnly(store, key, list) == [k \in {key} |-> list]

\* HIT_STORE.set(key, recent)
StoreSet(store, key, list) ==
  [k \in (DOMAIN store) \cup {key} |-> IF k = key THEN list ELSE store[k]]

\* mutant: the difference is not clamped at zero
RemainingRaw(limit, count) == limit - count

Remaining(limit, count) == Max(0, limit - count)

\* mutant: measured from the newest hit instead of the oldest
ResetMsNewest(recent, t, windowMs) ==
  Max(0, windowMs - (t - recent[Len(recent)]))

ResetMs(recent, t, windowMs) == Max(0, windowMs - (t - recent[1]))

\* mutant: the limit-th hit is already denied
AllowedStrict(count, limit) == count < limit

Allowed(count, limit) == count <= limit

\* the value rateLimit(key, opts) returns at time t on the given store
Decision(store, key, opts, t) ==
  LET limit == EffLimit(opts)
      windowMs == EffWindowMs(opts)
      recent == Recent(StoreGet(store, key), t, windowMs)
      count == Len(recent)
  IN [ok |-> Allowed(count, limit),
      remaining |-> Remaining(limit, count),
      resetMs |-> ResetMs(recent, t, windowMs),
      limit |-> limit,
      count |-> count]

\* mutant: a lost update, the list read is written back without the new hit
StoreAfterLost(store, key, opts, t) ==
  StoreSet(store, key, StoreGet(store, key))

\* mutant: a key whose hits have all expired is evicted
StoreAfterEvict(store, key, opts, t) ==
  LET kept == SelectSeq(StoreGet(store, key),
                        LAMBDA ts : InWindow(ts, t - EffWindowMs(opts)))
  IN IF key \in DOMAIN store /\ kept = <<>>
       THEN [k \in (DOMAIN store) \ {key} |-> store[k]]
       ELSE StoreSet(store, key, Append(kept, t))

\* mutant: the hit of a denied call is not recorded
StoreAfterAllowedOnly(store, key, opts, t) ==
  LET recent == Recent(StoreGet(store, key), t, EffWindowMs(opts))
  IN IF Allowed(Len(recent), EffLimit(opts))
       THEN StoreSet(store, key, recent)
       ELSE StoreSet(store, key, SubSeq(recent, 1, Len(recent) - 1))

\* the store rateLimit(key, opts) leaves at time t
StoreAfter(store, key, opts, t) ==
  StoreSet(store, key, Recent(StoreGet(store, key), t, EffWindowMs(opts)))

\* mutant: deleting one key clears the map
StoreDeleteAll(store, key) == [k \in {} |-> <<>>]

\* mutant: the key is not deleted
StoreKeep(store, key) == store

\* HIT_STORE.delete(key)
StoreDelete(store, key) == [k \in (DOMAIN store) \ {key} |-> store[k]]

\* HIT_STORE.clear()
EmptyStore == [k \in {} |-> <<>>]

\* ------------------------------------------------------------ bookkeeping
NoResult == [ok |-> TRUE, remaining |-> 0, resetMs |-> 0, limit |-> 0, count |-> 0]
NoError == [status |-> 0, retryAfterMs |-> 0]
NoOptions == [limit |-> Undefined, windowMs |-> Undefined]

NoneYet == 0 - 1
Mixed == 0 - 2

Merge(old, v) == IF old = NoneYet \/ old = v THEN v ELSE Mixed

NoCall ==
  [op |-> "none", key |-> "", opts |-> NoOptions, t |-> 0, before |-> <<>>,
   d |-> NoResult, ret |-> NoResult, thrown |-> FALSE, err |-> NoError]

Init ==
  /\ HIT_STORE = EmptyStore
  /\ now = 0
  /\ last = NoCall
  /\ calls = [k \in Keys |-> <<>>]
  /\ pol = [k \in Keys |-> [limit |-> NoneYet, windowMs |-> NoneYet]]
  /\ gen = [k \in Keys |-> "never"]
  /\ nops = 0

\* --------------------------------------------------------------- actions
\* Date.now() shows a later instant (the clock never steps back)
Tick ==
  /\ \E t \in Instants : t > now /\ now' = t
  /\ UNCHANGED <<HIT_STORE, last, calls, pol, gen, nops>>

\* The runs explored: every sequence of at most MaxOps operations, and the
\* bursts of at most MaxBurst calls for one key with the options omitted
\* (the runs in which the default limit is reached).
InBurst ==
  /\ Len(calls["a"]) = nops
  /\ pol["a"] = [limit |-> DefaultLimit, windowMs |-> DefaultWindowMs]

Budget(key, opts) ==
  \/ nops < MaxOps
  \/ InBurst /\ key = "a" /\ opts = NoOptions /\ nops < MaxBurst

\* what one run of the body of rateLimit does to the store and the records
Hit(key, opts, r) ==
  /\ HIT_STORE' = StoreAfter(HIT_STORE, key, opts, now)
  /\ calls' = [calls EXCEPT ![key] = Append(@, [t |-> now, ok |-> r.ok])]
  /\ pol' = [pol EXCEPT ![key] =
               [limit |-> Merge(@.limit, EffLimit(opts)),
                windowMs |-> Merge(@.windowMs, EffWindowMs(opts))]]
  /\ nops' = nops + 1
  /\ UNCHANGED <<now, gen>>

\* one call of rateLimit(key, opts)
RateLimitCall(key, opts) ==
  LET r == Decision(HIT_STORE, key, opts, now)
  IN /\ Hit(key, opts, r)
     /\ last' = [op |-> "rateLimit", key |-> key, opts |-> opts, t |-> now,
                 before |-> StoreGet(HIT_STORE, key), d |-> r, ret |-> r,
                 thrown |-> FALSE, err |-> NoError]

RateLimit(key, opts) ==
  /\ Budget(key, opts)
  /\ RateLimitCall(key, opts)

\* the error assertRateLimit throws for a denied decision r
RateLimitError(r) == [status |-> TooManyRequests, retryAfterMs |-> r.resetMs]

\* mutant: throws as soon as nothing remains
ThrowsWhenExhausted(r) == r.remaining = 0

\* if (!r.ok) throw
Throws(r) == ~r.ok

AssertRateLimit(key, opts) ==
  /\ Budget(key, opts)
  /\ LET r == Decision(HIT_STORE, key, opts, now)
     IN /\ Hit(key, opts, r)
        /\ last' = [op |-> "assertRateLimit", key |-> key, opts |-> opts,
                    t |-> now, before |-> StoreGet(HIT_STORE, key), d |-> r,
                    ret |-> IF Throws(r) THEN NoResult ELSE r,
                    thrown |-> Throws(r),
                    err |-> IF Throws(r) THEN RateLimitError(r) ELSE NoError]

\* resetRateLimit(key) with a string key
ResetRateLimit(key) ==
  /\ nops < MaxOps
  /\ HIT_STORE' = StoreDelete(HIT_STORE, key)
  /\ last' = [NoCall EXCEPT !.op = "resetRateLimit", !.key = key, !.t = now,
                            !.before = StoreGet(HIT_STORE, key)]
  /\ calls' = [calls EXCEPT ![key] = <<>>]
  /\ pol' = [pol EXCEPT ![key] = [limit |-> NoneYet, windowMs |-> NoneYet]]
  /\ gen' = [gen EXCEPT ![key] = IF key \in DOMAIN HIT_STORE THEN "reset" ELSE @]
  /\ nops' = nops + 1
  /\ UNCHANGED now

\* resetRateLimit() with the key omitted
ResetAll ==
  /\ nops < MaxOps
  /\ HIT_STORE' = EmptyStore
  /\ last' = [NoCall EXCEPT !.op = "resetAll", !.t = now]
  /\ calls' = [k \in Keys |-> <<>>]
  /\ pol' = [k \in Keys |-> [limit |-> NoneYet, windowMs |-> NoneYet]]
  /\ gen' = [k \in Keys |-> IF k \in DOMAIN HIT_STORE THEN "reset" ELSE gen[k]]
  /\ nops' = nops + 1
  /\ UNCHANGED now

Next ==
  \/ Tick
  \/ \E key \in Keys, opts \in Options : RateLimit(key, opts)
  \/ \E key \in Keys, opts \in Options : AssertRateLimit(key, opts)
  \/ \E key \in Keys : ResetRateLimit(key)
  \/ ResetAll

Spec == Init /\ [][Next]_vars

\* The runs of the documented scenario: calls of rateLimit with
\* { limit: 2, windowMs: 1000 } at the instants of the scenario, with the
\* window's edge and a later instant added.
ScenarioOptions == [limit |-> Num(2), windowMs |-> Num(1000)]
ScenarioInstants == {0, 100, 200, 1000, 1001, 1200}

ScenarioTick ==
  /\ \E t \in ScenarioInstants : t > now /\ now' = t
  /\ UNCHANGED <<HIT_STORE, last, calls, pol, gen, nops>>

ScenarioRateLimit(key) ==
  /\ nops < MaxScenarioOps
  /\ RateLimitCall(key, ScenarioOptions)

NextScenario ==
  \/ ScenarioTick
  \/ \E key \in Keys : ScenarioRateLimit(key)

SpecScenario == Init /\ [][NextScenario]_vars

CallOps == {"rateLimit", "assertRateLimit"}

\* the most recent operation is a call of rateLimit (directly or through
\* assertRateLimit) for key k
IsCall(k) == last.op \in CallOps /\ last.key = k

\* all calls for k since its reset used one limit and one window
SamePolicy(k) == pol[k].limit >= 0 /\ pol[k].windowMs >= 0

Count(S) == Cardinality(S)

\* ---------------------------------------------------------------- claims

\* C1 (monotonic admission): on a key without stored hits, under one policy
\* (limit N >= 1, window W > 0), the k-th call made less than W after the
\* first returns count = k and is allowed for k <= N; the (N+1)-th is denied.
MonotonicAdmission ==
  \A k \in Keys :
    LET n == Len(calls[k])
        N == pol[k].limit
        W == pol[k].windowMs
    IN (N >= 1 /\ W >= 1) =>
         /\ \A j \in 1..n :
              (j <= N + 1 /\ calls[k][j].t - calls[k][1].t < W)
                => (calls[k][j].ok <=> j <= N)
         /\ (IsCall(k) /\ n <= N + 1 /\ last.t - calls[k][1].t < W)
              => (last.d.count = n /\ (last.d.ok <=> n <= N))

MonotonicAdmissionWitness ==
  \E k \in Keys :
    /\ IsCall(k)
    /\ pol[k].limit >= 2 /\ pol[k].windowMs >= 1
    /\ Len(calls[k]) = pol[k].limit + 1
    /\ last.t - calls[k][1].t < pol[k].windowMs
    /\ ~last.d.ok

\* C2 (sliding-window bound): under one policy for a key, the allowed calls
\* whose timestamps lie in any interval (s - windowMs, s] number at most
\* limit.  Every timestamp is an instant, so s ranges over the instants.
AllowedIn(k, s, W) ==
  {i \in DOMAIN calls[k] :
     calls[k][i].ok /\ calls[k][i].t > s - W /\ calls[k][i].t <= s}

SlidingWindowBound ==
  \A k \in Keys : \A s \in Instants :
    SamePolicy(k) => Count(AllowedIn(k, s, pol[k].windowMs)) <= pol[k].limit

\* the window has slid: allowed, denied, then allowed again
SlidingWindowWitness ==
  \E k \in Keys :
    /\ SamePolicy(k) /\ pol[k].limit >= 1 /\ pol[k].windowMs >= 1
    /\ \E i, j, l \in DOMAIN calls[k] :
         i < j /\ j < l /\ calls[k][i].ok /\ ~calls[k][j].ok /\ calls[k][l].ok

\* C3 (no lost hit): of the calls made for one key at one instant under one
\* policy with a positive window, each sees the hits of all the earlier ones:
\* none is missing from the list it reads, its count is one more than the
\* live hits it read, the stored list grows by exactly that hit, and at most
\* limit of these calls are allowed.
SameInstant(k) == {i \in DOMAIN calls[k] : calls[k][i].t = last.t}

NoLostHit ==
  \A k \in Keys :
    (IsCall(k) /\ SamePolicy(k) /\ pol[k].windowMs >= 1) =>
      LET W == pol[k].windowMs
          live == {i \in DOMAIN last.before : last.before[i] > last.t - W}
      IN /\ Count({i \in DOMAIN last.before : last.before[i] = last.t})
              = Count(SameInstant(k)) - 1
         /\ last.d.count = Count(live) + 1
         /\ last.d.count >= Count(SameInstant(k))
         /\ Len(HIT_STORE[k]) = Count(live) + 1
         /\ HIT_STORE[k][Len(HIT_STORE[k])] = last.t
         /\ Count({i \in SameInstant(k) : calls[k][i].ok}) <= pol[k].limit

\* three calls at one instant, the last denied
NoLostHitWitness ==
  \E k \in Keys :
    /\ IsCall(k) /\ SamePolicy(k) /\ pol[k].windowMs >= 1
    /\ Count(SameInstant(k)) >= 3
    /\ ~last.d.ok

\* C4 (window expiry): when every earlier hit of the key is more than
\* windowMs older than the call, the call counts only itself, is allowed for
\* limit >= 1, and leaves only its own timestamp stored.
Expired(k) ==
  /\ IsCall(k)
  /\ Len(calls[k]) >= 2
  /\ \A i \in 1..(Len(calls[k]) - 1) :
       last.t > calls[k][i].t + EffWindowMs(last.opts)

WindowExpiry ==
  \A k \in Keys :
    Expired(k) =>
      /\ last.d.count = 1
      /\ (last.d.limit >= 1 => last.d.ok)
      /\ HIT_STORE[k] = <<last.t>>

WindowExpiryWitness ==
  \E k \in Keys :
    Expired(k) /\ Len(calls[k]) >= 3 /\ EffWindowMs(last.opts) >= 1
      /\ Len(last.before) >= 2

\* C5 (per-key isolation): a call for key A leaves the stored sequence of
\* every other key B as it was, and the decision a call for B would get, with
\* any options, is the same before and after the call.
IsolationStep ==
  \A A \in Keys, B \in Keys :
    (nops' # nops /\ last'.op \in CallOps /\ last'.key = A /\ B # A) =>
      /\ (B \in DOMAIN HIT_STORE') <=> (B \in DOMAIN HIT_STORE)
      /\ StoreGet(HIT_STORE', B) = StoreGet(HIT_STORE, B)
      /\ \A opts \in Options :
           Decision(HIT_STORE', B, opts, now) = Decision(HIT_STORE, B, opts, now)

PerKeyIsolation == [][IsolationStep]_vars

\* a call for one key while the other key has hits stored
PerKeyIsolationWitness ==
  \E A \in Keys, B \in Keys :
    IsCall(A) /\ B # A /\ B \in DOMAIN HIT_STORE /\ Len(HIT_STORE[A]) >= 2

\* C6 (boundary exclusion): a stored hit at exactly now - windowMs is not
\* counted by a call at now and is gone from the list the call stores; a hit
\* at now - windowMs + 1 is counted and kept.
At(list, ts) == {i \in DOMAIN list : list[i] = ts}

\* the stored list without the hit the last call appended
Kept(k) == SubSeq(HIT_STORE[k], 1, Len(HIT_STORE[k]) - 1)

BoundaryExclusion ==
  \A k \in Keys :
    IsCall(k) =>
      LET W == EffWindowMs(last.opts)
          edge == last.t - W
      IN /\ last.d.count
              = 1 + Count({i \in DOMAIN last.before : last.before[i] > edge})
         /\ At(Kept(k), edge) = {}
         /\ Count(At(Kept(k), edge + 1)) = Count(At(last.before, edge + 1))
         /\ Len(HIT_STORE[k]) = last.d.count

\* the list read holds a hit at the boundary and one a millisecond inside
BoundaryExclusionWitness ==
  \E k \in Keys :
    /\ IsCall(k)
    /\ EffWindowMs(last.opts) >= 1
    /\ At(last.before, last.t - EffWindowMs(last.opts)) # {}
    /\ At(last.before, last.t - EffWindowMs(last.opts) + 1) # {}
    /\ last.d.count = 2

\* C7 (the two forms agree): assertRateLimit throws exactly when rateLimit,
\* on the list it read and at the same time, returns ok = false; the error has
\* status 429 and retryAfterMs = resetMs of that decision; otherwise it
\* returns that decision.  rateLimit never throws.
WouldReturn ==
  Decision(StoreSet(EmptyStore, last.key, last.before), last.key, last.opts,
           last.t)

FormsAgree ==
  /\ last.op = "assertRateLimit" =>
       /\ last.d = WouldReturn
       /\ last.thrown <=> ~WouldReturn.ok
       /\ last.thrown =>
            /\ last.err.status = 429
            /\ last.err.retryAfterMs = WouldReturn.resetMs
       /\ ~last.thrown => (last.ret = WouldReturn /\ last.err = NoError)
  /\ last.op = "rateLimit" =>
       (~last.thrown /\ last.ret = WouldReturn /\ last.err = NoError)

FormsAgreeWitness ==
  /\ last.op = "assertRateLimit"
  /\ last.thrown
  /\ last.err.retryAfterMs > 0
  /\ last.d.remaining = 0

\* C8 (reset yields a fresh key): the first call for a key after its hits
\* were reset returns count = 1, remaining = max(0, limit - 1),
\* resetMs = windowMs and ok = (1 <= limit), as on a never-seen key, and
\* leaves only its own timestamp stored; resetting the same key a second
\* time in a row changes nothing in the store.
FreshResult(opts) ==
  [ok |-> 1 <= EffLimit(opts),
   remaining |-> IF EffLimit(opts) - 1 >= 0 THEN EffLimit(opts) - 1 ELSE 0,
   resetMs |-> EffWindowMs(opts),
   limit |-> EffLimit(opts),
   count |-> 1]

FirstSinceReset(k) == IsCall(k) /\ Len(calls[k]) = 1

FreshAfterReset ==
  \A k \in Keys :
    /\ FirstSinceReset(k) =>
         (last.d = FreshResult(last.opts) /\ HIT_STORE[k] = <<last.t>>)
    /\ (last.op = "resetRateLimit" /\ last.key = k) => k \notin DOMAIN HIT_STORE

ResetTwiceStep ==
  (nops' # nops /\ last.op = "resetRateLimit" /\ last'.op = "resetRateLimit"
     /\ last'.key = last.key)
    => (HIT_STORE' = HIT_STORE /\ calls' = calls /\ pol' = pol)

ResetYieldsFresh == [][FreshAfterReset' /\ ResetTwiceStep]_vars

\* the first call after a reset that deleted hits of the key
ResetYieldsFreshWitness ==
  \E k \in Keys :
    /\ gen[k] = "reset"
    /\ FirstSinceReset(k)
    /\ EffLimit(last.opts) >= 1

\* C9 (remaining consistency): remaining = max(0, limit - count) >= 0;
\* a denied call has remaining = 0; an allowed call has
\* remaining + count = limit.
RemainingConsistent ==
  \A k \in Keys :
    IsCall(k) =>
      LET r == last.d
      IN /\ r.remaining >= 0
         /\ (r.limit - r.count >= 0 => r.remaining = r.limit - r.count)
         /\ (r.limit - r.count < 0 => r.remaining = 0)
         /\ (~r.ok => r.remaining = 0)
         /\ (r.ok => r.remaining + r.count = r.limit)

\* a call more than one over the limit
RemainingConsistentWitness ==
  \E k \in Keys : IsCall(k) /\ ~last.d.ok /\ last.d.count >= last.d.limit + 2

\* C10 (policy defaults by coercion): a limit that is omitted or not finite
\* is replaced by 20, a windowMs that is omitted or not finite by 60000, each
\* on its own; the call decides with these values, returns the effective
\* limit, records its hit and does not fail.
Coerced(v, default) == IF v.tag = "num" THEN v.n ELSE default

Oldest(list, t) ==
  IF list = <<>> THEN t
  ELSE CHOOSE x \in {list[i] : i \in DOMAIN list} :
         \A y \in {list[i] : i \in DOMAIN list} : x <= y

PolicyDefaults ==
  \A k \in Keys :
    IsCall(k) =>
      LET L == Coerced(last.opts.limit, 20)
          W == Coerced(last.opts.windowMs, 60000)
          live == SelectSeq(last.before, LAMBDA ts : ts > last.t - W)
          age == last.t - Oldest(live, last.t)
      IN /\ last.d.limit = L
         /\ last.d.count = Len(live) + 1
         /\ last.d.ok <=> (Len(live) + 1 <= L)
         /\ last.d.remaining = (IF L - Len(live) - 1 >= 0 THEN L - Len(live) - 1 ELSE 0)
         /\ last.d.resetMs = (IF W - age >= 0 THEN W - age ELSE 0)
         /\ HIT_STORE[k] = Append(live, last.t)
         /\ last.op = "rateLimit" => (~last.thrown /\ last.ret = last.d)

\* the 21st call inside the default window is denied; a defaulted limit with
\* a given window lets the given window expire a hit
DefaultLimitReached ==
  /\ IsCall("a")
  /\ last.opts.limit.tag # "num" /\ last.opts.windowMs.tag # "num"
  /\ last.d.count = 21 /\ ~last.d.ok

PolicyDefaultsWitness == DefaultLimitReached

DefaultedLimitOnly ==
  \E k \in Keys :
    /\ IsCall(k)
    /\ last.opts.limit = NaN /\ last.opts.windowMs.tag = "num"
    /\ last.before # <<>> /\ last.d.count = 1 /\ last.d.limit = 20

\* C11 (end-to-end scenario), as amended: on a fresh key with
\* { limit: 2, windowMs: 1000 }, the calls at t = 0, 100, 200 and 1001 return
\* {ok, count 1, remaining 1}, {ok, count 2, remaining 0},
\* {denied, count 3, remaining 0} and {denied, count 3, remaining 0}: at 1001
\* only the hit at 0 has left the window, the hits at 100 and 200 still count.
ScenarioTimes == <<0, 100, 200, 1001>>

Times(k) == [i \in DOMAIN calls[k] |-> calls[k][i].t]

Brief(r) == [ok |-> r.ok, count |-> r.count, remaining |-> r.remaining]

\* the last call is the n-th call of the scenario on key k
ScenarioStep(k, n) ==
  /\ IsCall(k)
  /\ last.opts = ScenarioOptions
  /\ pol[k] = [limit |-> 2, windowMs |-> 1000]
  /\ gen[k] = "never"
  /\ Len(calls[k]) = n
  /\ Times(k) = SubSeq(ScenarioTimes, 1, n)

ScenarioCode ==
  << [ok |-> TRUE, count |-> 1, remaining |-> 1],
     [ok |-> TRUE, count |-> 2, remaining |-> 0],
     [ok |-> FALSE, count |-> 3, remaining |-> 0],
     [ok |-> FALSE, count |-> 3, remaining |-> 0] >>

ScenarioResults ==
  \A k \in Keys : \A n \in 1..4 :
    ScenarioStep(k, n) => Brief(last.d) = ScenarioCode[n]

ScenarioResultsWitness == \E k \in Keys : ScenarioStep(k, 4)

\* C11 as stated: the fourth call, at t = 1001, returns
\* {ok: true, count: 1, remaining: 1}.
ScenarioClaimed ==
  << [ok |-> TRUE, count |-> 1, remaining |-> 1],
     [ok |-> TRUE, count |-> 2, remaining |-> 0],
     [ok |-> FALSE, count |-> 3, remaining |-> 0],
     [ok |-> TRUE, count |-> 1, remaining |-> 1] >>

ScenarioAsStated ==
  \A k \in Keys : \A n \in 1..4 :
    ScenarioStep(k, n) => Brief(last.d) = ScenarioClaimed[n]

\* C12 (resetMs): resetMs = max(0, windowMs - (now - oldest)), oldest being
\* the earliest timestamp stored for the key after the call; it lies in
\* 0..windowMs; and a later call with the same options counts that oldest
\* hit exactly when it comes before now + resetMs.
ResetMsMeaning ==
  \A k \in Keys :
    IsCall(k) =>
      LET W == EffWindowMs(last.opts)
          S == HIT_STORE[k]
          oldest == S[1]
          r == last.d
      IN /\ \A i \in DOMAIN S : oldest <= S[i]
         /\ r.resetMs = (IF W - (last.t - oldest) >= 0
                           THEN W - (last.t - oldest) ELSE 0)
         /\ 0 <= r.resetMs /\ r.resetMs <= W
         /\ \A t \in Instants :
              t >= last.t =>
                ( t < last.t + r.resetMs
                    <=> Decision(HIT_STORE, k, last.opts, t).count = Len(S) + 1 )

\* the oldest hit is older than the call, and the instant at which it leaves
\* the window can be reached
ResetMsMeaningWitness ==
  \E k \in Keys :
    /\ IsCall(k)
    /\ last.d.resetMs > 0
    /\ last.d.resetMs < EffWindowMs(last.opts)
    /\ last.t + last.d.resetMs \in Instants

\* C13 (store after a decision): right after a call for key K at time now
\* with window windowMs, every timestamp stored for K is newer than
\* now - windowMs or is now itself, the last one is now, and the list is in
\* non-decreasing order; the list of a key is changed only by operations on
\* that key: neither a call for another key nor the passing of time removes
\* its stale entries.
StoredAfterCall ==
  \A k \in Keys :
    IsCall(k) =>
      LET S == HIT_STORE[k]
          W == EffWindowMs(last.opts)
      IN /\ Len(S) >= 1
         /\ \A i \in DOMAIN S : S[i] > last.t - W \/ S[i] = last.t
         /\ S[Len(S)] = last.t
         /\ \A i \in DOMAIN S : \A j \in DOMAIN S : i <= j => S[i] <= S[j]

LazyPruningStep ==
  /\ now' # now => HIT_STORE' = HIT_STORE
  /\ \A B \in Keys :
       (nops' # nops /\ last'.op \in CallOps /\ last'.key # B)
         => StoreGet(HIT_STORE', B) = StoreGet(HIT_STORE, B)

StoreInvariant == [][StoredAfterCall' /\ LazyPruningStep]_vars

\* after a call for one key, the other key still holds a hit that is at
\* least one of its own windows old
StoreInvariantWitness ==
  \E A \in Keys, B \in Keys :
    /\ IsCall(A) /\ B # A /\ B \in DOMAIN HIT_STORE
    /\ Len(HIT_STORE[A]) >= 2
    /\ pol[B].windowMs >= 1
    /\ HIT_STORE[B][1] <= last.t - pol[B].windowMs

\* C14 (key lifecycle): a key is in the store, with a non-empty list, exactly
\* when it has been called since its last reset (resetRateLimit(key) or
\* resetRateLimit()); pruning never removes it, and each call leaves a list
\* one entry longer than the pruned list it read.
KeyLifecycle ==
  \A k \in Keys :
    /\ (k \in DOMAIN HIT_STORE) <=> (calls[k] # <<>>)
    /\ k \in DOMAIN HIT_STORE => Len(HIT_STORE[k]) >= 1
    /\ IsCall(k) =>
         /\ k \in DOMAIN HIT_STORE
         /\ Len(HIT_STORE[k])
              = 1 + Len(SelectSeq(last.before,
                                  LAMBDA ts : ts > last.t - EffWindowMs(last.opts)))

\* a call that pruned every hit the key had, while the other key keeps a
\* hit that has expired too
KeyLifecycleWitness ==
  \E A \in Keys, B \in Keys :
    /\ IsCall(A) /\ last.before # <<>> /\ Len(HIT_STORE[A]) = 1
    /\ B # A /\ B \in DOMAIN HIT_STORE
    /\ HIT_STORE[B][Len(HIT_STORE[B])] < last.t

\* C15 (reset scope): resetRateLimit(key) removes the list of that key and
\* nothing else (nothing at all when the key is not stored); resetRateLimit()
\* leaves the store empty; a call of rateLimit or assertRateLimit removes no
\* key.
ResetScopeStep ==
  /\ (nops' # nops /\ last'.op = "resetRateLimit") =>
       /\ DOMAIN HIT_STORE' = (DOMAIN HIT_STORE) \ {last'.key}
       /\ \A k \in DOMAIN HIT_STORE' : HIT_STORE'[k] = HIT_STORE[k]
       /\ last'.key \notin DOMAIN HIT_STORE => HIT_STORE' = HIT_STORE
  /\ (nops' # nops /\ last'.op = "resetAll") => DOMAIN HIT_STORE' = {}
  /\ (nops' # nops /\ last'.op \in CallOps) =>
       /\ DOMAIN HIT_STORE' = (DOMAIN HIT_STORE) \cup {last'.key}
       /\ Len(HIT_STORE'[last'.key]) >= 1

ResetScope == [][ResetScopeStep]_vars

\* a reset of one key that had hits, the other key keeping its own
ResetScopeWitness ==
  \E A \in Keys, B \in Keys :
    /\ last.op = "resetRateLimit" /\ last.key = A /\ last.before # <<>>
    /\ B # A /\ B \in DOMAIN HIT_STORE /\ A \notin DOMAIN HIT_STORE

\* C16 (a denied call records its hit): a call through assertRateLimit
\* leaves the store that the same call of rateLimit leaves, the pruned list
\* of the key with now appended and every other key untouched, whether it
\* returns or throws; when it throws, the hit is already stored.
StoreAsRateLimit(store, key, opts, t) ==
  LET W == Coerced(opts.windowMs, 60000)
      live == SelectSeq(StoreGet(store, key), LAMBDA ts : ts > t - W)
  IN [k \in (DOMAIN store) \cup {key} |->
        IF k = key THEN Append(live, t) ELSE store[k]]

ThrowRecordsHitStep ==
  (nops' # nops /\ last'.op \in CallOps) =>
    /\ HIT_STORE' = StoreAsRateLimit(HIT_STORE, last'.key, last'.opts, now)
    /\ last'.thrown =>
         /\ last'.op = "assertRateLimit"
         /\ HIT_STORE'[last'.key][Len(HIT_STORE'[last'.key])] = now
         /\ Len(HIT_STORE'[last'.key]) = last'.d.count

ThrowRecordsHit == [][ThrowRecordsHitStep]_vars

\* assertRateLimit has thrown and the denied hit is the last one stored
ThrowRecordsHitWitness ==
  /\ last.op = "assertRateLimit" /\ last.thrown
  /\ Len(HIT_STORE[last.key]) >= 2
  /\ HIT_STORE[last.key][Len(HIT_STORE[last.key])] = last.t
  /\ Len(HIT_STORE[last.key]) > last.d.limit

\* C17 (denied attempts are counted), as amended: for a key always called
\* with one windowMs, the count a call returns is one, for the call itself,
\* plus the number of earlier calls since the key's reset, allowed or denied,
\* whose timestamps are greater than now - windowMs; the call is allowed
\* exactly when that number is at most its limit.
EarlierInWindow(k, W) ==
  {i \in 1..(Len(calls[k]) - 1) : calls[k][i].t > last.t - W}

SameWindow(k) == pol[k].windowMs >= 0

DeniedCounted ==
  \A k \in Keys :
    (IsCall(k) /\ SameWindow(k)) =>
      /\ last.d.count = 1 + Count(EarlierInWindow(k, pol[k].windowMs))
      /\ last.d.ok <=> (1 + Count(EarlierInWindow(k, pol[k].windowMs)) <= last.d.limit)

\* a denied call after an earlier denied call that is still in the window
DeniedCountedWitness ==
  \E k \in Keys :
    /\ IsCall(k) /\ SameWindow(k) /\ pol[k].windowMs >= 1
    /\ ~last.d.ok
    /\ \E i \in EarlierInWindow(k, pol[k].windowMs) : ~calls[k][i].ok

\* C17 as stated: the count is the number of calls, this one included, whose
\* timestamps are strictly greater than now - windowMs.
DeniedCountedAsStated ==
  \A k \in Keys :
    (IsCall(k) /\ SameWindow(k)) =>
      last.d.count
        = Count({i \in DOMAIN calls[k] : calls[k][i].t > last.t - pol[k].windowMs})

\* C18 (admission respects the caller's own window): whatever policies the
\* earlier calls on the key used, a call that is allowed under (limit, windowMs)
\* finds at most limit calls made for the key since its reset, itself included,
\* with timestamps in (now - windowMs, now].
CallsInWindow(k, W) ==
  {i \in DOMAIN calls[k] : calls[k][i].t > last.t - W /\ calls[k][i].t <= last.t}

OwnWindowAdmission ==
  \A k \in Keys :
    (IsCall(k) /\ last.d.ok) =>
      Count(CallsInWindow(k, EffWindowMs(last.opts))) <= last.d.limit

\* an allowed call whose own window holds more calls than its limit, after a
\* call with a shorter window pruned the stored list
OwnWindowExceeded ==
  \E k \in Keys :
    /\ IsCall(k) /\ last.d.ok
    /\ pol[k].windowMs = Mixed
    /\ Count(CallsInWindow(k, EffWindowMs(last.opts))) > last.d.limit
    /\ Len(last.before) < Count(CallsInWindow(k, EffWindowMs(last.opts))) - 1

TypeOK ==
  /\ now \in Instants \cup ScenarioInstants
  /\ DOMAIN HIT_STORE \subseteq Keys
====
